---- MODULE Spec2Model ----
(***************************************************************************)
(* gsheet: schema-driven row parser (Schema::parse_row), the two schema    *)
(* constructors and the row loop of main, modelled from src/src/main.rs.   *)
(*                                                                         *)
(* Text is a sequence of one-character strings, so that parsing, JSON      *)
(* rendering and quote trimming are computed character by character.       *)
(***************************************************************************)
EXTENDS Integers, Sequences, FiniteSets, TLC

\* ------------------------------------------------------------------------
\* Bounds of the model
\* ------------------------------------------------------------------------
MaxCols == 2        \* columns of an arbitrary schema
MaxRowLen == 2      \* cells of one raw row
MaxRows == 2        \* rows of the value matrix
MaxRowIndex == 1    \* row_index argument of a stand-alone parse_row call
MaxHeaderLen == 2   \* cells of a header row handed to generate_schema
LoopCols == 1       \* columns of the schema the row loop is entered with
LoopRowLen == 1     \* cells of one raw row of the row loop
LoopRows == 3       \* rows of the value matrix of the row loop

\* ------------------------------------------------------------------------
\* Characters and text
\* ------------------------------------------------------------------------
DQ == "\""
BS == "\\"

DigitChars == <<"0", "1", "2", "3", "4", "5", "6", "7", "8", "9">>

IsDigit(c) == \E k \in 1..10 : DigitChars[k] = c

DigitVal(c) == (CHOOSE k \in 1..10 : DigitChars[k] = c) - 1

AllDigits(s) == \A k \in 1..Len(s) : IsDigit(s[k])

RECURSIVE DigitsValue(_)
DigitsValue(s) ==
    IF s = <<>> THEN 0
    ELSE 10 * DigitsValue(SubSeq(s, 1, Len(s) - 1)) + DigitVal(s[Len(s)])

RECURSIVE Pow10(_)
Pow10(k) == IF k = 0 THEN 1 ELSE 10 * Pow10(k - 1)

\* usize / i64 Display of a natural number
RECURSIVE NatToString(_)
NatToString(n) ==
    IF n < 10 THEN <<DigitChars[n + 1]>>
    ELSE NatToString(n \div 10) \o <<DigitChars[(n % 10) + 1]>>

IntToString(n) == IF n < 0 THEN <<"-">> \o NatToString(-n) ELSE NatToString(n)

\* ASCII lower-casing of the letters that occur in inf / infinity / nan
Lower(c) ==
    CASE c = "I" -> "i" [] c = "N" -> "n" [] c = "F" -> "f" [] c = "T" -> "t"
      [] c = "Y" -> "y" [] c = "A" -> "a" [] OTHER -> c

LowerAll(s) == [k \in 1..Len(s) |-> Lower(s[k])]

\* position of the first character of s that satisfies one of cs, 0 if none
FirstOf(s, cs) ==
    IF \E k \in 1..Len(s) : s[k] \in cs
    THEN CHOOSE k \in 1..Len(s) : s[k] \in cs /\ \A j \in 1..(k - 1) : s[j] \notin cs
    ELSE 0

\* ------------------------------------------------------------------------
\* str::parse::<i64>, str::parse::<f64>, str::parse::<bool>
\* ------------------------------------------------------------------------
\* i64::from_str: optional sign, then one or more decimal digits.  The texts
\* of this model have a handful of digits, far below the 19 of i64::MAX.
ParseI64(s) ==
    LET signed == s # <<>> /\ s[1] \in {"+", "-"}
        body   == IF signed THEN Tail(s) ELSE s
        neg    == signed /\ s[1] = "-"
    IN  IF body = <<>> \/ ~AllDigits(body)
        THEN [ok |-> FALSE, n |-> 0]
        ELSE [ok |-> TRUE, n |-> IF neg THEN -DigitsValue(body) ELSE DigitsValue(body)]

\* An f64 is kept as sign, decimal mantissa and decimal scale (mant / 10^scale),
\* normalised so that equal numbers are equal values; inf and nan are kinds.
RECURSIVE NormFloat(_, _, _)
NormFloat(neg, mant, scale) ==
    IF mant = 0 THEN [kind |-> "fin", neg |-> neg, mant |-> 0, scale |-> 0]
    ELSE IF scale > 0 /\ mant % 10 = 0 THEN NormFloat(neg, mant \div 10, scale - 1)
    ELSE IF scale < 0 THEN NormFloat(neg, mant * 10, scale + 1)
    ELSE [kind |-> "fin", neg |-> neg, mant |-> mant, scale |-> scale]

FloatZero == [kind |-> "fin", neg |-> FALSE, mant |-> 0, scale |-> 0]

T_inf == <<"i", "n", "f">>
T_infinity == <<"i", "n", "f", "i", "n", "i", "t", "y">>
T_nan == <<"n", "a", "n">>

\* f64::from_str (core::num::dec2flt): sign, then digits [. digits] [e [sign] digits]
\* with at least one mantissa digit, or inf / infinity / nan in any case.
ParseF64(s) ==
    LET signed == s # <<>> /\ s[1] \in {"+", "-"}
        neg    == signed /\ s[1] = "-"
        body   == IF signed THEN Tail(s) ELSE s
        epos   == FirstOf(body, {"e", "E"})
        mpart  == IF epos = 0 THEN body ELSE SubSeq(body, 1, epos - 1)
        xpart  == IF epos = 0 THEN <<>> ELSE SubSeq(body, epos + 1, Len(body))
        dpos   == FirstOf(mpart, {"."})
        ipart  == IF dpos = 0 THEN mpart ELSE SubSeq(mpart, 1, dpos - 1)
        fpart  == IF dpos = 0 THEN <<>> ELSE SubSeq(mpart, dpos + 1, Len(mpart))
        xsign  == xpart # <<>> /\ xpart[1] \in {"+", "-"}
        xneg   == xsign /\ xpart[1] = "-"
        xdig   == IF xsign THEN Tail(xpart) ELSE xpart
        mantOk == AllDigits(ipart) /\ AllDigits(fpart) /\ Len(ipart) + Len(fpart) > 0
        expOk  == epos = 0 \/ (xdig # <<>> /\ AllDigits(xdig))
        exp    == IF epos = 0 THEN 0
                  ELSE IF xneg THEN -DigitsValue(xdig) ELSE DigitsValue(xdig)
        bad    == [ok |-> FALSE, f |-> FloatZero]
    IN  IF body = <<>> THEN bad
        ELSE IF mantOk /\ expOk
        THEN [ok |-> TRUE,
              f |-> NormFloat(neg, DigitsValue(ipart \o fpart), Len(fpart) - exp)]
        ELSE IF LowerAll(body) \in {T_inf, T_infinity}
        THEN [ok |-> TRUE, f |-> [kind |-> "inf", neg |-> neg, mant |-> 0, scale |-> 0]]
        ELSE IF LowerAll(body) = T_nan
        THEN [ok |-> TRUE, f |-> [kind |-> "nan", neg |-> neg, mant |-> 0, scale |-> 0]]
        ELSE bad

T_true == <<"t", "r", "u", "e">>
T_false == <<"f", "a", "l", "s", "e">>

\* bool::from_str: exactly "true" or "false"
ParseBool(s) ==
    IF s = T_true THEN [ok |-> TRUE, b |-> TRUE]
    ELSE IF s = T_false THEN [ok |-> TRUE, b |-> FALSE]
    ELSE [ok |-> FALSE, b |-> FALSE]

\* ------------------------------------------------------------------------
\* serde_json::Value: one untyped cell of the value matrix
\* ------------------------------------------------------------------------
JNull == [kind |-> "Null", s |-> <<>>, b |-> FALSE, n |-> 0]
JString(s) == [kind |-> "String", s |-> s, b |-> FALSE, n |-> 0]
JBool(b) == [kind |-> "Bool", s |-> <<>>, b |-> b, n |-> 0]
JNumber(n) == [kind |-> "Number", s |-> <<>>, b |-> FALSE, n |-> n]

\* Value::as_str: Some(text) for a String, None for every other kind
as_str(v) ==
    IF v.kind = "String" THEN [some |-> TRUE, s |-> v.s] ELSE [some |-> FALSE, s |-> <<>>]

unwrap_or(opt, default) == IF opt.some THEN opt.s ELSE default

\* serde_json's escaping of one character of a string
JsonEscape(c) ==
    CASE c = DQ -> <<BS, DQ>>
      [] c = BS -> <<BS, BS>>
      [] OTHER -> <<c>>

RECURSIVE JsonEscapeAll(_)
JsonEscapeAll(s) ==
    IF s = <<>> THEN <<>> ELSE JsonEscape(Head(s)) \o JsonEscapeAll(Tail(s))

\* Value::to_string: the compact JSON rendering of the value
JsonToString(v) ==
    CASE v.kind = "Null" -> <<"n", "u", "l", "l">>
      [] v.kind = "Bool" -> IF v.b THEN T_true ELSE T_false
      [] v.kind = "Number" -> IntToString(v.n)
      [] v.kind = "String" -> <<DQ>> \o JsonEscapeAll(v.s) \o <<DQ>>

\* str::trim_matches('"'): every leading and every trailing double quote goes
RECURSIVE TrimStart(_)
TrimStart(s) == IF s # <<>> /\ Head(s) = DQ THEN TrimStart(Tail(s)) ELSE s

RECURSIVE TrimEnd(_)
TrimEnd(s) ==
    IF s # <<>> /\ s[Len(s)] = DQ THEN TrimEnd(SubSeq(s, 1, Len(s) - 1)) ELSE s

trim_matches(s) == TrimEnd(TrimStart(s))

\* ------------------------------------------------------------------------
\* DataType, DataValue, Column, Schema, ParseError
\* ------------------------------------------------------------------------
DataType == {"String", "Integer", "Float", "Boolean"}

DV_Null == [tag |-> "Null", s |-> <<>>, i |-> 0, f |-> FloatZero, b |-> FALSE]
DV_String(s) == [tag |-> "String", s |-> s, i |-> 0, f |-> FloatZero, b |-> FALSE]
DV_Integer(i) == [tag |-> "Integer", s |-> <<>>, i |-> i, f |-> FloatZero, b |-> FALSE]
DV_Float(f) == [tag |-> "Float", s |-> <<>>, i |-> 0, f |-> f, b |-> FALSE]
DV_Boolean(b) == [tag |-> "Boolean", s |-> <<>>, i |-> 0, f |-> FloatZero, b |-> b]

\* f64's Display: plain decimal, no exponent, "inf" and "NaN"
F64ToString(f) ==
    LET whole == f.mant \div Pow10(f.scale)
        frac  == f.mant % Pow10(f.scale)
        fdig  == NatToString(frac)
        pad   == [k \in 1..(f.scale - Len(fdig)) |-> "0"]
        sign  == IF f.neg THEN <<"-">> ELSE <<>>
    IN  CASE f.kind = "nan" -> <<"N", "a", "N">>
          [] f.kind = "inf" -> sign \o T_inf
          [] OTHER -> sign \o NatToString(whole)
                        \o (IF f.scale > 0 THEN <<".">> \o pad \o fdig ELSE <<>>)

to_csv_string(v) ==
    CASE v.tag = "Integer" -> IntToString(v.i)
      [] v.tag = "Float" -> F64ToString(v.f)
      [] v.tag = "String" -> v.s
      [] v.tag = "Boolean" -> IF v.b THEN T_true ELSE T_false
      [] v.tag = "Null" -> <<>>

Column(name, data_type, required) ==
    [name |-> name, data_type |-> data_type, required |-> required]

NoError ==
    [kind |-> "None", row |-> 0, col |-> 0, name |-> <<>>, expected |-> "", actual |-> <<>>]

TypeMismatch(row, col, name, expected, actual) ==
    [kind |-> "TypeMismatch", row |-> row, col |-> col, name |-> name,
     expected |-> expected, actual |-> actual]

MissingColumn(row, col, name) ==
    [kind |-> "MissingColumn", row |-> row, col |-> col, name |-> name,
     expected |-> "", actual |-> <<>>]

\* ------------------------------------------------------------------------
\* Schema::parse_row
\* ------------------------------------------------------------------------
\* a raw_get that reads one cell too far
raw_get_OffByOne(raw_row, i) == IF i + 1 < Len(raw_row) THEN raw_row[i + 2] ELSE JNull

\* raw_row.get(i).unwrap_or(&Value::Null), i zero-based
raw_get(raw_row, i) == IF i < Len(raw_row) THEN raw_row[i + 1] ELSE JNull

CellOk(v) == [ok |-> TRUE, value |-> v, err |-> NoError]
CellErr(e) == [ok |-> FALSE, value |-> DV_Null, err |-> e]

T_0 == <<"0">>
T_0_0 == <<"0", ".", "0">>

\* the match on col.data_type for a cell that is not Value::Null
convert(col, i, row_index, raw_val) ==
    CASE col.data_type = "String" ->
            CellOk(DV_String(unwrap_or(as_str(raw_val), <<>>)))
      [] col.data_type = "Integer" ->
            LET s == unwrap_or(as_str(raw_val), T_0)
                r == ParseI64(s)
            IN  IF r.ok THEN CellOk(DV_Integer(r.n))
                ELSE CellErr(TypeMismatch(row_index, i, col.name, "Integer", s))
      [] col.data_type = "Float" ->
            LET s == unwrap_or(as_str(raw_val), T_0_0)
                r == ParseF64(s)
            IN  IF r.ok THEN CellOk(DV_Float(r.f))
                ELSE CellErr(TypeMismatch(row_index, i, col.name, "Float", s))
      [] col.data_type = "Boolean" ->
            LET s == unwrap_or(as_str(raw_val), T_false)
                r == ParseBool(s)
            IN  IF r.ok THEN CellOk(DV_Boolean(r.b))
                ELSE CellErr(TypeMismatch(row_index, i, col.name, "Boolean", s))

\* the null branch of the loop body: Value::Null (or no entry at all)
resolve_null(col, i, row_index) ==
    IF col.required THEN CellErr(MissingColumn(row_index, i, col.name))
    ELSE CellOk(DV_Null)

\* a loop body without the Value::Null test: every cell goes to the type match
loop_body_NoNullTest(col, i, row_index, raw_row) ==
    convert(col, i, row_index, raw_get(raw_row, i))

\* one iteration of `for (i, col) in self.columns.iter().enumerate()`
loop_body(col, i, row_index, raw_row) ==
    LET raw_val == raw_get(raw_row, i)
    IN  IF raw_val.kind = "Null" THEN resolve_null(col, i, row_index)
        ELSE convert(col, i, row_index, raw_val)

ResOk(record) == [ok |-> TRUE, record |-> record, err |-> NoError]
ResErr(e) == [ok |-> FALSE, record |-> <<>>, err |-> e]

RECURSIVE parse_row_loop(_, _, _, _, _)
parse_row_loop(columns, row_index, raw_row, i, processed) ==
    IF i >= Len(columns) THEN ResOk(processed)
    ELSE LET c == loop_body(columns[i + 1], i, row_index, raw_row)
         IN  IF c.ok
             THEN parse_row_loop(columns, row_index, raw_row, i + 1, Append(processed, c.value))
             ELSE ResErr(c.err)

parse_row(schema, row_index, raw_row) ==
    parse_row_loop(schema.columns, row_index, raw_row, 0, <<>>)

\* ------------------------------------------------------------------------
\* generate_default_schema, generate_schema
\* ------------------------------------------------------------------------
\* a generate_schema whose columns come out required
generate_schema_Required(header) ==
    [columns |-> [k \in 1..Len(header) |->
                     Column(trim_matches(JsonToString(header[k])), "String", TRUE)]]

generate_default_schema(columns) ==
    [columns |-> [c \in 1..columns |->
                     Column(<<"#">> \o NatToString(c - 1), "String", FALSE)]]

generate_schema(header) ==
    [columns |-> [k \in 1..Len(header) |->
                     Column(trim_matches(JsonToString(header[k])), "String", FALSE)]]

\* ------------------------------------------------------------------------
\* State
\* ------------------------------------------------------------------------
VARIABLES
    values,         \* value_range.values: None, or the matrix of cells
    has_header,     \* cli.has_header
    output_header,  \* cli.output_header
    on_error,       \* cli.on_error
    pc,             \* position of main, or of a stand-alone parse_row call
    schema,         \* the Schema in use
    iter,           \* what is left of values.into_iter().enumerate()
    written,        \* the records handed to wtr.write_record, in order
    diag,           \* the lines written to stderr, in order
    status,         \* what main returned
    calls,          \* the (row_index, raw_row) of every parse_row call of main, in order
    row_index,      \* parse_row: its row_index argument
    raw_row,        \* parse_row: its raw_row argument; generate_schema: its header
    i,              \* parse_row: the loop counter
    processed,      \* parse_row: the Vec of resolved values
    result          \* parse_row: the returned Result

vars == <<values, has_header, output_header, on_error, pc, schema, iter, written,
          diag, status, calls, row_index, raw_row, i, processed, result>>

mainVars == <<values, has_header, output_header, on_error, iter, written, diag,
              status, calls>>

parseVars == <<row_index, raw_row, i, processed, result>>

SeqsUpTo(S, n) == UNION {[1..k -> S] : k \in 0..n}

None == [some |-> FALSE, rows |-> <<>>]
Some(rows) == [some |-> TRUE, rows |-> rows]

OnError == {"Fail", "Skip", "Log"}

Running == [state |-> "running", err |-> NoError]
ReturnedOk == [state |-> "ok", err |-> NoError]
ReturnedErr(e) == [state |-> "err", err |-> e]

NoResult == [ok |-> FALSE, record |-> <<>>, err |-> NoError]

EmptySchema == [columns |-> <<>>]

\* values.into_iter().enumerate()
Enumerate(rows) == [k \in 1..Len(rows) |-> [index |-> k - 1, row |-> rows[k]]]

\* ------------------------------------------------------------------------
\* Inputs
\* ------------------------------------------------------------------------
T_34 == <<"3", "4">>
T_abc == <<"a", "b", "c">>
T_1_5 == <<"1", ".", "5">>
T_Ann == <<"A", "n", "n">>
T_Name == <<"N", "a", "m", "e">>
T_QScoreQ == <<DQ, "S", "c", "o", "r", "e", DQ>>

\* column names by zero-based position
ColName(k) ==
    CASE k = 0 -> <<"n", "a", "m", "e">>
      [] k = 1 -> <<"a", "g", "e">>
      [] k = 2 -> <<"s", "c", "o", "r", "e">>
      [] OTHER -> <<"#">> \o NatToString(k)

SchemasOf(kinds, n) ==
    UNION {{[columns |-> [k \in 1..m |-> Column(ColName(k - 1), tr[k][1], tr[k][2])]] :
               tr \in [1..m -> kinds]} : m \in 0..n}

ParseCells ==
    {JNull, JString(T_34), JString(T_abc), JString(T_true), JString(T_1_5),
     JString(<<>>), JBool(TRUE), JNumber(5)}

MainCells == {JString(T_Ann), JNumber(5)}

LoopCells == {JString(T_34), JString(T_abc)}

LoopKinds == {<<"Integer", FALSE>>, <<"String", TRUE>>}

HeaderCells ==
    {JNull, JBool(TRUE), JNumber(5), JString(<<>>), JString(T_Name),
     JString(T_QScoreQ), JString(<<"a", DQ>>), JString(T_Ann)}

\* ------------------------------------------------------------------------
\* Schema::parse_row, one loop iteration at a time
\* ------------------------------------------------------------------------
InitParse ==
    /\ schema \in SchemasOf(DataType \X BOOLEAN, MaxCols)
    /\ row_index \in 0..MaxRowIndex
    /\ raw_row \in SeqsUpTo(ParseCells, MaxRowLen)
    /\ i = 0
    /\ processed = <<>>
    /\ result = NoResult
    /\ pc = "parse"
    /\ values = None /\ has_header = FALSE /\ output_header = FALSE
    /\ on_error = "Log" /\ iter = <<>> /\ written = <<>> /\ diag = <<>>
    /\ status = Running /\ calls = <<>>

\* a loop that records a failure and goes on to the next column
ParseColumn_KeepsGoing ==
    /\ pc = "parse"
    /\ i < Len(schema.columns)
    /\ LET c == loop_body(schema.columns[i + 1], i, row_index, raw_row)
       IN  IF c.ok
           THEN /\ processed' = Append(processed, c.value)
                /\ UNCHANGED result
           ELSE /\ result' = ResErr(c.err)
                /\ UNCHANGED processed
    /\ i' = i + 1
    /\ UNCHANGED <<pc, schema, row_index, raw_row, mainVars>>

\* lines 117-172: the body of the for loop, for column i
ParseColumn ==
    /\ pc = "parse"
    /\ i < Len(schema.columns)
    /\ LET c == loop_body(schema.columns[i + 1], i, row_index, raw_row)
       IN  IF c.ok
           THEN /\ processed' = Append(processed, c.value)
                /\ i' = i + 1
                /\ UNCHANGED <<result, pc>>
           ELSE /\ result' = ResErr(c.err)
                /\ processed' = <<>>
                /\ pc' = "returned"
                /\ UNCHANGED i
    /\ UNCHANGED <<schema, row_index, raw_row, mainVars>>

\* line 173: Ok(Record(processed))
ParseReturn ==
    /\ pc = "parse"
    /\ i >= Len(schema.columns)
    /\ result' = ResOk(processed)
    /\ pc' = "returned"
    /\ UNCHANGED <<schema, row_index, raw_row, i, processed, mainVars>>

NextParse == ParseColumn \/ ParseReturn

SpecParse == InitParse /\ [][NextParse]_vars

\* ------------------------------------------------------------------------
\* generate_schema on a header row
\* ------------------------------------------------------------------------
InitHeader ==
    /\ raw_row \in SeqsUpTo(HeaderCells, MaxHeaderLen)
    /\ schema = EmptySchema
    /\ pc = "header"
    /\ row_index = 0 /\ i = 0 /\ processed = <<>> /\ result = NoResult
    /\ values = None /\ has_header = TRUE /\ output_header = FALSE
    /\ on_error = "Log" /\ iter = <<>> /\ written = <<>> /\ diag = <<>>
    /\ status = Running /\ calls = <<>>

GenerateSchema ==
    /\ pc = "header"
    /\ schema' = generate_schema(raw_row)
    /\ pc' = "generated"
    /\ UNCHANGED <<parseVars, mainVars>>

NextHeader == GenerateSchema

SpecHeader == InitHeader /\ [][NextHeader]_vars

\* ------------------------------------------------------------------------
\* main
\* ------------------------------------------------------------------------
DataNotFound == [msg |-> "data not found", err |-> NoError]
Logged(e) == [msg |-> "ParseError", err |-> e]

\* record.iter().map(|v| v.to_csv_string()).collect()
csv_row(record) == [k \in 1..Len(record) |-> to_csv_string(record[k])]

\* schema.columns.iter().map(|c| &c.name)
header_record(s) == [k \in 1..Len(s.columns) |-> s.columns[k].name]

\* an on_error match whose Fail arm goes on like Log
on_error_arm_FailGoesOn(policy) ==
    [return |-> FALSE, log |-> policy \in {"Fail", "Log"}]

\* an on_error match whose Skip arm reports like Log
on_error_arm_SkipLogs(policy) ==
    [return |-> policy = "Fail", log |-> policy \in {"Skip", "Log"}]

\* the match on cli.on_error: does main return the error, does it print it
on_error_arm(policy) ==
    CASE policy = "Fail" -> [return |-> TRUE, log |-> FALSE]
      [] policy = "Skip" -> [return |-> FALSE, log |-> FALSE]
      [] policy = "Log" -> [return |-> FALSE, log |-> TRUE]

Init ==
    /\ values \in {None} \cup
                  {Some(m) : m \in SeqsUpTo(SeqsUpTo(MainCells, MaxRowLen), MaxRows)}
    /\ has_header \in BOOLEAN
    /\ output_header \in BOOLEAN
    /\ on_error \in OnError
    /\ pc = "start"
    /\ schema = EmptySchema
    /\ iter = <<>> /\ written = <<>> /\ diag = <<>>
    /\ status = Running /\ calls = <<>>
    /\ row_index = 0 /\ raw_row = <<>> /\ i = 0 /\ processed = <<>> /\ result = NoResult

\* lines 252-265: peek at the first row, build the schema, write the header line
MainSetup ==
    /\ pc = "start"
    /\ values.some
    /\ values.rows # <<>>
    /\ LET header == values.rows[1]
           all    == Enumerate(values.rows)
       IN  /\ schema' = IF has_header THEN generate_schema(header)
                        ELSE generate_default_schema(Len(header))
           /\ iter' = IF has_header THEN Tail(all) ELSE all
    /\ written' = IF output_header THEN <<header_record(schema')>> ELSE <<>>
    /\ pc' = "rows"
    /\ UNCHANGED <<values, has_header, output_header, on_error, diag, status, calls,
                   parseVars>>

\* lines 281-289: no matrix, or a matrix without rows
MainNoData ==
    /\ pc = "start"
    /\ ~values.some \/ values.rows = <<>>
    /\ diag' = Append(diag, DataNotFound)
    /\ status' = ReturnedOk
    /\ pc' = "done"
    /\ UNCHANGED <<values, has_header, output_header, on_error, schema, iter, written,
                   calls, parseVars>>

\* lines 267-280: one iteration of `for (i, raw_row) in iter`
MainRow ==
    /\ pc = "rows"
    /\ iter # <<>>
    /\ LET next == Head(iter)
           r    == parse_row(schema, next.index, next.row)
           arm  == on_error_arm(on_error)
       IN  /\ calls' = Append(calls, next)
           /\ iter' = Tail(iter)
           /\ written' = IF r.ok THEN Append(written, csv_row(r.record)) ELSE written
           /\ diag' = IF ~r.ok /\ arm.log THEN Append(diag, Logged(r.err)) ELSE diag
           /\ status' = IF ~r.ok /\ arm.return THEN ReturnedErr(r.err) ELSE status
           /\ pc' = IF ~r.ok /\ arm.return THEN "done" ELSE "rows"
    /\ UNCHANGED <<values, has_header, output_header, on_error, schema, parseVars>>

\* lines 287-289: the loop is over; wtr.flush() and Ok(())
MainFinish ==
    /\ pc = "rows"
    /\ iter = <<>>
    /\ status' = ReturnedOk
    /\ pc' = "done"
    /\ UNCHANGED <<values, has_header, output_header, on_error, schema, iter, written,
                   diag, calls, parseVars>>

Next == MainSetup \/ MainNoData \/ MainRow \/ MainFinish

Spec == Init /\ [][Next]_vars

\* ------------------------------------------------------------------------
\* The row loop of main (lines 267-280) under an arbitrary schema.  main only
\* ever builds schemas of optional String columns, under which no row fails;
\* the on_error arms are exercised by entering the loop with a schema that
\* has Integer or required columns.
\* ------------------------------------------------------------------------
InitLoop ==
    /\ \E m \in SeqsUpTo(SeqsUpTo(LoopCells, LoopRowLen), LoopRows) :
          /\ m # <<>>
          /\ values = Some(m)
    /\ has_header \in BOOLEAN
    /\ output_header \in BOOLEAN
    /\ on_error \in OnError
    /\ schema \in SchemasOf(LoopKinds, LoopCols)
    /\ iter = IF has_header THEN Tail(Enumerate(values.rows)) ELSE Enumerate(values.rows)
    /\ written = IF output_header THEN <<header_record(schema)>> ELSE <<>>
    /\ pc = "rows"
    /\ diag = <<>> /\ status = Running /\ calls = <<>>
    /\ row_index = 0 /\ raw_row = <<>> /\ i = 0 /\ processed = <<>> /\ result = NoResult

NextLoop == MainRow \/ MainFinish

SpecLoop == InitLoop /\ [][NextLoop]_vars

\* ------------------------------------------------------------------------
\* Notions the properties are stated in
\* ------------------------------------------------------------------------
NCols == Len(schema.columns)

Col(k) == schema.columns[k + 1]

\* the raw entry at zero-based position k, Null when the row has none
EntryAt(k) == IF k < Len(raw_row) THEN raw_row[k + 1] ELSE JNull

Absent(k) == EntryAt(k).kind = "Null"

\* the text representation of a present entry
TextOf(v) == IF v.kind = "String" THEN v.s ELSE JsonToString(v)

\* the literal grammar of a column type
Parses(data_type, text) ==
    CASE data_type = "String" -> TRUE
      [] data_type = "Integer" -> ParseI64(text).ok
      [] data_type = "Float" -> ParseF64(text).ok
      [] data_type = "Boolean" -> ParseBool(text).ok

\* the value a text denotes under a column type
Interp(data_type, text) ==
    CASE data_type = "String" -> DV_String(text)
      [] data_type = "Integer" -> DV_Integer(ParseI64(text).n)
      [] data_type = "Float" -> DV_Float(ParseF64(text).f)
      [] data_type = "Boolean" -> DV_Boolean(ParseBool(text).b)

\* column k fails by the rules of the row parser's contract
Fails(k) ==
    IF Absent(k) THEN Col(k).required
    ELSE ~Parses(Col(k).data_type, TextOf(EntryAt(k)))

\* what the loop body makes of column k
Outcome(k) == loop_body(Col(k), k, row_index, raw_row)

NullPadded == raw_row \o [k \in 1..(NCols - Len(raw_row)) |-> JNull]

\* ------------------------------------------------------------------------
\* Properties of Schema::parse_row (SpecParse)
\* ------------------------------------------------------------------------
\* C1: a returned record has exactly one value per schema column, the value at
\* position k being the one resolved from raw entry k against column k (Null
\* when entry k is absent), whatever the length of the row; and parse_row
\* returns Ok whenever every present entry matches its column's type and no
\* required column is absent.
C1_RecordShape ==
    pc = "returned" =>
        /\ result.ok =>
              /\ Len(result.record) = NCols
              /\ \A k \in 0..(NCols - 1) :
                    result.record[k + 1] =
                        IF Absent(k) THEN DV_Null
                        ELSE convert(Col(k), k, row_index, EntryAt(k)).value
        /\ (\A k \in 0..(NCols - 1) : ~Fails(k)) => result.ok

C1_Witness ==
    /\ pc = "returned"
    /\ result.ok
    /\ NCols = 1
    /\ Len(raw_row) = 2
    /\ result.record = <<DV_Integer(34)>>

\* C2: in a row shorter than the schema every column at an index >= len(row)
\* is treated as absent, exactly like an explicit null entry: a required one
\* makes parse_row fail, with MissingColumn(row_index, its index, its name) when
\* the loop gets to it, and never with TypeMismatch; one that is not required
\* resolves to Null whatever its declared type.
C2_ShortRow ==
    (pc = "returned" /\ Len(raw_row) < NCols) =>
        /\ result = parse_row(schema, row_index, NullPadded)
        /\ (~result.ok /\ result.err.kind = "TypeMismatch") => result.err.col < Len(raw_row)
        /\ \A k \in Len(raw_row)..(NCols - 1) :
              /\ Col(k).required => ~result.ok
              /\ (Col(k).required /\ ~result.ok /\ result.err.col >= k) =>
                    result = ResErr(MissingColumn(row_index, k, Col(k).name))
              /\ (~Col(k).required /\ result.ok) => result.record[k + 1] = DV_Null

C2_Witness ==
    /\ pc = "returned"
    /\ NCols = 2
    /\ Len(raw_row) = 1
    /\ Col(1).data_type = "Integer"
    /\ row_index = 1
    /\ result = ResErr(MissingColumn(1, 1, ColName(1)))

\* C3: a present entry of an Integer, Float or Boolean column whose text
\* representation does not parse under the column's type makes parse_row fail
\* with TypeMismatch(row_index, column index, column name, the type's label, the
\* entry's text), for every kind of present entry, text or not.
C3_TypeMismatchForEveryEntry ==
    pc = "returned" =>
        \A k \in 0..(NCols - 1) :
            (/\ \A j \in 0..(k - 1) : ~Fails(j)
             /\ ~Absent(k)
             /\ Col(k).data_type # "String"
             /\ ~Parses(Col(k).data_type, TextOf(EntryAt(k)))) =>
                result = ResErr(TypeMismatch(row_index, k, Col(k).name,
                                             Col(k).data_type, TextOf(EntryAt(k))))

\* C4: no value of a returned record is a default or a guess: each value that
\* is not Null is what the text representation of the entry at its position
\* denotes under the column's type (for a Text column, the text itself).
C4_NoDefaultValue ==
    (pc = "returned" /\ result.ok) =>
        \A k \in 0..(Len(result.record) - 1) :
            result.record[k + 1] # DV_Null =>
                /\ ~Absent(k)
                /\ result.record[k + 1] = Interp(Col(k).data_type, TextOf(EntryAt(k)))

\* C9: parse_row takes the columns in schema order and stops at the first one
\* that fails: the error returned is that of the lowest-index failing column
\* (MissingColumn or TypeMismatch as that column decides), no later column is
\* evaluated, and the values resolved so far are dropped.
C9_FirstFailure ==
    /\ pc = "parse" =>
          /\ Len(processed) = i
          /\ \A k \in 0..(i - 1) : Outcome(k).ok /\ processed[k + 1] = Outcome(k).value
    /\ pc = "returned" => result = parse_row(schema, row_index, raw_row)
    /\ (pc = "returned" /\ result.ok) => \A k \in 0..(NCols - 1) : Outcome(k).ok
    /\ (pc = "returned" /\ ~result.ok) =>
          /\ i = result.err.col
          /\ i < NCols
          /\ \A k \in 0..(i - 1) : Outcome(k).ok
          /\ ~Outcome(i).ok
          /\ result.err = Outcome(i).err
          /\ result.err.kind = (IF Absent(i) THEN "MissingColumn" ELSE "TypeMismatch")
          /\ result.record = <<>>
          /\ processed = <<>>

C9_Witness ==
    /\ pc = "returned"
    /\ NCols = 2
    /\ ~Outcome(0).ok
    /\ ~Outcome(1).ok
    /\ Outcome(0).err.kind = "TypeMismatch"
    /\ Outcome(1).err.kind = "MissingColumn"
    /\ result = ResErr(Outcome(0).err)

\* ------------------------------------------------------------------------
\* Properties of main and of its row loop (Spec, SpecLoop)
\* ------------------------------------------------------------------------
\* the data portion of the source: every row, less the header row if there is one
DataRows ==
    IF ~values.some \/ values.rows = <<>> THEN <<>>
    ELSE IF has_header THEN Tail(values.rows) ELSE values.rows

HeaderPart == IF output_header THEN <<header_record(schema)>> ELSE <<>>

\* the outcome of the k-th parse_row call of main
ResultOf(k) == parse_row(schema, calls[k].index, calls[k].row)

\* the rows are taken in source order, each exactly once
InSourceOrder ==
    /\ Len(calls) + Len(iter) = Len(DataRows)
    /\ \A k \in 1..Len(calls) : calls[k].row = DataRows[k]
    /\ \A k \in 1..Len(iter) : iter[k].row = DataRows[Len(calls) + k]

\* the records of the rows among the first n that parsed, in order
RECURSIVE Accepted(_)
Accepted(n) ==
    IF n = 0 THEN <<>>
    ELSE Accepted(n - 1) \o
         (IF ResultOf(n).ok THEN <<csv_row(ResultOf(n).record)>> ELSE <<>>)

\* the errors of the rows among the first n that failed, in order
RECURSIVE Rejected(_)
Rejected(n) ==
    IF n = 0 THEN <<>>
    ELSE Rejected(n - 1) \o (IF ResultOf(n).ok THEN <<>> ELSE <<Logged(ResultOf(n).err)>>)

\* C5: the row index main passes to parse_row is the zero-based index of the
\* row within the data portion: 0 for the first data row, with or without a
\* header row.
C5_ZeroBasedDataIndex ==
    \A k \in 1..Len(calls) : calls[k].index = k - 1

\* C6: under Fail the run stops at the first data row whose parse_row fails
\* and returns that row's error; the records of all earlier rows have been
\* written, in order, and none for the failing row or any later row.
C6_FailStopsAtFirstError ==
    on_error = "Fail" =>
        LET n       == Len(calls)
            failing == {k \in 1..n : ~ResultOf(k).ok}
        IN  /\ InSourceOrder
            /\ status.state = "err" <=> failing # {}
            /\ failing = {} =>
                  /\ written = HeaderPart \o [k \in 1..n |-> csv_row(ResultOf(k).record)]
                  /\ pc = "done" => (n = Len(DataRows) /\ status = ReturnedOk)
            /\ failing # {} =>
                  /\ failing = {n}
                  /\ pc = "done"
                  /\ status = ReturnedErr(ResultOf(n).err)
                  /\ written = HeaderPart \o
                                 [k \in 1..(n - 1) |-> csv_row(ResultOf(k).record)]

C6_Witness ==
    /\ on_error = "Fail"
    /\ pc = "done"
    /\ status.state = "err"
    /\ status.err.kind = "TypeMismatch"
    /\ Len(calls) = 2
    /\ ~output_header
    /\ Len(written) = 1
    /\ Len(iter) = 1
    /\ parse_row(schema, iter[1].index, iter[1].row).ok

\* C7: under Skip and under Log the records written are the same: those of the
\* data rows whose parse_row succeeded, in source order.  A failed row gives no
\* record and does not stop the rows after it; Log prints its error, Skip
\* prints nothing.
C7_SkipAndLogWriteTheSame ==
    on_error \in {"Skip", "Log"} =>
        LET n == Len(calls)
        IN  /\ InSourceOrder
            /\ written = HeaderPart \o Accepted(n)
            /\ diag = (IF on_error = "Log" THEN Rejected(n) ELSE <<>>)
            /\ status.state # "err"
            /\ pc = "done" => (n = Len(DataRows) /\ status = ReturnedOk)

C7_Witness ==
    /\ on_error = "Skip"
    /\ pc = "done"
    /\ Len(calls) = 3
    /\ ResultOf(1).ok /\ ~ResultOf(2).ok /\ ResultOf(3).ok
    /\ ~output_header
    /\ Len(written) = 2
    /\ diag = <<>>

\* C10: main only ever parses against a schema of optional String columns, so
\* no parse_row call of a run fails, no error is returned or printed, and the
\* output is the same whatever on_error is: one record per data row, each with
\* as many fields as the first row has cells.
C10_GeneratedSchemaNeverFails ==
    /\ \A k \in 1..Len(schema.columns) :
          schema.columns[k].data_type = "String" /\ ~schema.columns[k].required
    /\ \A k \in 1..Len(calls) : ResultOf(k).ok
    /\ status.state # "err"
    /\ \A k \in 1..Len(diag) : diag[k] = DataNotFound
    /\ pc = "rows" => InSourceOrder
    /\ pc # "start" /\ DataRows = <<>> /\ ~(values.some /\ values.rows # <<>>) =>
          written = <<>>
    /\ (pc # "start" /\ values.some /\ values.rows # <<>>) =>
          /\ Len(schema.columns) = Len(values.rows[1])
          /\ written = HeaderPart \o [k \in 1..Len(calls) |-> csv_row(ResultOf(k).record)]
          /\ \A k \in 1..Len(calls) :
                Len(written[Len(HeaderPart) + k]) = Len(values.rows[1])
          /\ pc = "done" =>
                /\ status = ReturnedOk
                /\ InSourceOrder
                /\ Len(calls) = Len(DataRows)
                /\ Len(written) = Len(HeaderPart) + Len(DataRows)

C10_Witness ==
    /\ pc = "done"
    /\ on_error = "Fail"
    /\ has_header
    /\ ~output_header
    /\ Len(values.rows) = 2
    /\ Len(values.rows[1]) = 2
    /\ values.rows[2] = <<JNumber(5)>>
    /\ written = << <<<<>>, <<>>>> >>

\* ------------------------------------------------------------------------
\* Properties of generate_schema (SpecHeader)
\* ------------------------------------------------------------------------
\* C8: generate_schema gives one optional String column per header cell, in
\* order, named by the cell's text with the surrounding quote characters
\* stripped: the cells Name and "Score" give the names Name and Score.
C8_HeaderNames ==
    pc = "generated" =>
        /\ Len(schema.columns) = Len(raw_row)
        /\ \A k \in 1..Len(raw_row) :
              schema.columns[k] = Column(trim_matches(TextOf(raw_row[k])), "String", FALSE)

====
